---- MODULE Spec2Model ----
(***************************************************************************)
(* Model of the Ubuntu support chatbot: the retrieval / rerank / command   *)
(* extraction pipeline of src/src/chat.py (command loop) and src/app.py    *)
(* (Streamlit web UI).                                                     *)
(*                                                                         *)
(* Text is a sequence of one-character strings.  Scores are fixed-point    *)
(* integers in hundredths (0.25 is 25, -2.0 is -200, 1.10 is 110).         *)
(***************************************************************************)
EXTENDS Integers, Sequences, FiniteSets, TLC

VARIABLES surface, pc, messages, stdout, calls, turns, last, arg, ret

vars == <<surface, pc, messages, stdout, calls, turns, last, arg, ret>>

\* Python None (a record, so that it compares with candidate records)
None == [none |-> TRUE]

(***************************************************************************)
(* Python str primitives                                                   *)
(***************************************************************************)
Chars(s) == [i \in 1..Len(s) |-> SubSeq(s, i, i)]

UPPER == Chars("ABCDEFGHIJKLMNOPQRSTUVWXYZ")
LOWER == Chars("abcdefghijklmnopqrstuvwxyz")
DIGITS == Chars("0123456789")

Range(f) == {f[i] : i \in DOMAIN f}

\* str.isspace() on one character
IsSpace(c) == c \in {" ", "\t", "\n"}

WORD_CHARS == Range(UPPER) \cup Range(LOWER) \cup Range(DIGITS) \cup {"_"}

\* the regex class \w on one character
IsWord(c) == c \in WORD_CHARS

UPPER_SET == Range(UPPER)

LOWER_OF == [c \in UPPER_SET |-> LOWER[CHOOSE i \in 1..Len(UPPER) : UPPER[i] = c]]

lower_char(c) == IF c \in UPPER_SET THEN LOWER_OF[c] ELSE c

\* str.lower()
lower(s) == [i \in 1..Len(s) |-> lower_char(s[i])]

\* first index >= j of t that holds no whitespace (Len(t) + 1 if none)
RECURSIVE skip_spaces(_, _)
skip_spaces(t, j) ==
    IF j <= Len(t) /\ IsSpace(t[j]) THEN skip_spaces(t, j + 1) ELSE j

\* last index <= j of t that holds no whitespace (0 if none)
RECURSIVE skip_spaces_back(_, _)
skip_spaces_back(t, j) ==
    IF j >= 1 /\ IsSpace(t[j]) THEN skip_spaces_back(t, j - 1) ELSE j

strip_nothing(s) == s

\* str.strip()
strip(s) == SubSeq(s, skip_spaces(s, 1), skip_spaces_back(s, Len(s)))

\* a[i .. i+len(w)-1] == w
MatchAt(a, i, w) == \A j \in 1..Len(w) : a[i + j - 1] = w[j]

\* w in a (substring test)
Contains(a, w) == \E i \in 1..(Len(a) - Len(w) + 1) : MatchAt(a, i, w)

\* str.startswith(w)
startswith(a, w) == Len(a) >= Len(w) /\ MatchAt(a, 1, w)

\* any(x in a for x in words)
any_in(a, words) == \E k \in 1..Len(words) : Contains(a, words[k])

(***************************************************************************)
(* Regular expressions of BAD_PATTERNS.  A pattern is                      *)
(*   [b0, lit, b1, w]: optional \b, a literal, optional \b, optional \w+.  *)
(***************************************************************************)
Word(s) == [b0 |-> TRUE, lit |-> Chars(s), b1 |-> TRUE, w |-> FALSE]
HashWord == [b0 |-> FALSE, lit |-> Chars("#"), b1 |-> FALSE, w |-> TRUE]

WordAt(a, k) == k \in 1..Len(a) /\ IsWord(a[k])

\* \b between positions k and k+1 of a
Boundary(a, k) == WordAt(a, k) # WordAt(a, k + 1)

re_search(pat, a) ==
    \E i \in 1..(Len(a) - Len(pat.lit) + 1) :
        /\ MatchAt(a, i, pat.lit)
        /\ pat.b0 => Boundary(a, i - 1)
        /\ pat.b1 => Boundary(a, i + Len(pat.lit) - 1)
        /\ pat.w => WordAt(a, i + Len(pat.lit))

(***************************************************************************)
(* chat.py: configuration                                                  *)
(***************************************************************************)
MIN_TOTAL_SCORE == 110

BAD_PATTERNS ==
    << HashWord, Word("join"), Word("irssi"), Word("lol"), Word("pm me"),
       Word("google it"), Word("ask on"), Word("wrong channel"),
       Word("ask in"), Word("go to #") >>

GOOD_HINTS ==
    << Chars("sudo"), Chars("apt"), Chars("apt-get"), Chars("dpkg"),
       Chars("systemctl"), Chars("service"), Chars("nmcli"),
       Chars("ifconfig"), Chars("iwconfig"), Chars("lspci"), Chars("lsusb"),
       Chars("modprobe"), Chars("dmesg"), Chars("/etc/"), Chars("reboot"),
       Chars("restart"), Chars("update"), Chars("upgrade"), Chars("install"),
       Chars("purge"), Chars("remove"), Chars("networkmanager"),
       Chars("netplan"), Chars("rfkill"), Chars("error"), Chars("failed"),
       Chars("dependency"), Chars("dependencies"), Chars("kernel"),
       Chars("driver") >>

UBUNTU_INTENT_HINTS ==
    << Chars("ubuntu"), Chars("linux"), Chars("apt"), Chars("apt-get"),
       Chars("dpkg"), Chars("sudo"), Chars("kernel"), Chars("grub"),
       Chars("wifi"), Chars("wireless"), Chars("network"), Chars("nmcli"),
       Chars("bluetooth"), Chars("nvidia"), Chars("driver"),
       Chars("install"), Chars("update"), Chars("upgrade"), Chars("error"),
       Chars("failed"), Chars("package"), Chars("terminal"), Chars("bash"),
       Chars("permission"), Chars("mount"), Chars("disk") >>

STEP_WORDS ==
    << Chars("try"), Chars("run"), Chars("check"), Chars("edit"),
       Chars("open"), Chars("type"), Chars("command"), Chars("reboot"),
       Chars("restart") >>

is_ubuntu_question(q) == any_in(strip(lower(q)), UBUNTU_INTENT_HINTS)

(***************************************************************************)
(* app.py: configuration                                                   *)
(***************************************************************************)
APP_UBUNTU_INTENT_HINTS ==
    UBUNTU_INTENT_HINTS \o << Chars("snap"), Chars("repo"), Chars("dependency") >>

APP_BAD_PATTERNS ==
    << HashWord, Word("join"), Word("lol"), Word("wrong channel"),
       Word("ask on"), Word("irssi") >>

APP_GOOD_HINTS ==
    << Chars("sudo"), Chars("apt"), Chars("apt-get"), Chars("dpkg"),
       Chars("systemctl"), Chars("service"), Chars("nmcli"),
       Chars("ifconfig"), Chars("iwconfig"), Chars("lspci"), Chars("lsusb"),
       Chars("dmesg"), Chars("reboot"), Chars("restart"), Chars("update"),
       Chars("upgrade"), Chars("install"), Chars("kernel"), Chars("driver"),
       Chars("dependency"), Chars("failed"), Chars("error") >>

APP_STEP_WORDS ==
    << Chars("try"), Chars("run"), Chars("check"), Chars("type"),
       Chars("command") >>

app_is_ubuntu_question(q) == any_in(strip(lower(q)), APP_UBUNTU_INTENT_HINTS)

(***************************************************************************)
(* Answer quality scoring                                                  *)
(***************************************************************************)
\* for pat in BAD_PATTERNS: if re.search(pat, a)
any_bad(pats, a) == \E k \in 1..Len(pats) : re_search(pats[k], a)

\* for w in GOOD_HINTS: if w in a: score += 0.25   (one step per list entry)
hint_score(hints, a) ==
    25 * Cardinality({k \in 1..Len(hints) : Contains(a, hints[k])})

length_adjust_le(L) ==
    IF 30 <= L /\ L <= 350 THEN 50
    ELSE IF L <= 15 THEN -50
    ELSE IF L > 600 THEN -30
    ELSE 0

\* if 30 <= L <= 350 ... elif L < 15 ... elif L > 600
length_adjust(L) ==
    IF 30 <= L /\ L <= 350 THEN 50
    ELSE IF L < 15 THEN -50
    ELSE IF L > 600 THEN -30
    ELSE 0

answer_quality_score_late_veto(ans) ==
    LET a == strip(lower(ans))
        score == hint_score(GOOD_HINTS, a) + length_adjust(Len(a))
                     + (IF any_in(a, STEP_WORDS) THEN 30 ELSE 0)
    IN IF any_bad(BAD_PATTERNS, a) THEN score - 200 ELSE score

\* chat.py answer_quality_score
answer_quality_score(ans) ==
    LET a == strip(lower(ans))
    IN IF any_bad(BAD_PATTERNS, a) THEN -200
       ELSE hint_score(GOOD_HINTS, a) + length_adjust(Len(a))
                + (IF any_in(a, STEP_WORDS) THEN 30 ELSE 0)

\* app.py answer_quality
answer_quality(ans) ==
    LET a == strip(lower(ans))
    IN IF any_bad(APP_BAD_PATTERNS, a) THEN -200
       ELSE hint_score(APP_GOOD_HINTS, a) + length_adjust(Len(a))
                + (IF any_in(a, APP_STEP_WORDS) THEN 30 ELSE 0)

(***************************************************************************)
(* Reranking.  A candidate is [sim, matched_query, answer]; pick_best adds *)
(* qual and total to every candidate of the list.                          *)
(***************************************************************************)
better_or_equal(total, best_score) == total >= best_score

\* if total > best_score
better(total, best_score) == total > best_score

\* for r in results: ... if total > best_score: best_score = total; best = r
RECURSIVE pick_loop(_, _, _, _)
pick_loop(scored, k, best, best_score) ==
    IF k > Len(scored) THEN best
    ELSE IF better(scored[k].total, best_score)
         THEN pick_loop(scored, k + 1, scored[k], scored[k].total)
         ELSE pick_loop(scored, k + 1, best, best_score)

insert_desc_before_ties(s, x) ==
    LET n == Cardinality({i \in 1..Len(s) : s[i].total > x.total})
    IN SubSeq(s, 1, n) \o <<x>> \o SubSeq(s, n + 1, Len(s))

\* one insertion of the stable descending sort: x goes after every element
\* whose key is not smaller
insert_desc(s, x) ==
    LET n == Cardinality({i \in 1..Len(s) : s[i].total >= x.total})
    IN SubSeq(s, 1, n) \o <<x>> \o SubSeq(s, n + 1, Len(s))

\* sorted(results, key=lambda x: x["total"], reverse=True)
RECURSIVE sorted_desc(_, _, _)
sorted_desc(scored, k, acc) ==
    IF k > Len(scored) THEN acc
    ELSE sorted_desc(scored, k + 1, insert_desc(acc, scored[k]))

\* the corpus (Metadata Store): parallel queries / answers
CorpusQueries ==
    << Chars("apt-get update failed"), Chars("wifi down"), Chars("hi"),
       Chars("how to update"), Chars("netplan broken"), Chars("what now") >>

CorpusAnswers ==
    << Chars("sudo apt-get update"),
       Chars("Run apt-get update, then reboot."),
       Chars("a"),
       Chars("lol just run sudo apt-get update and check dmesg"),
       Chars("edit /etc/netplan config and restart"),
       Chars("ok") >>

\* answer_quality_score / answer_quality of the corpus answers, computed once
ChatQuality == [a \in Range(CorpusAnswers) |-> answer_quality_score(a)]
AppQuality == [a \in Range(CorpusAnswers) |-> answer_quality(a)]

\* qual = answer_quality_score(r["answer"])
qual_of(ans) ==
    IF ans \in DOMAIN ChatQuality THEN ChatQuality[ans] ELSE answer_quality_score(ans)

\* r["qual"] = answer_quality(r["answer"])
app_qual_of(ans) ==
    IF ans \in DOMAIN AppQuality THEN AppQuality[ans] ELSE answer_quality(ans)

\* chat.py pick_best
pick_best(results) ==
    LET scored == [i \in 1..Len(results) |->
                     LET qual == qual_of(results[i].answer)
                     IN [sim |-> results[i].sim,
                         matched_query |-> results[i].matched_query,
                         answer |-> results[i].answer,
                         qual |-> qual,
                         total |-> results[i].sim + qual]]
    IN [best |-> pick_loop(scored, 1, None, -99900),
        ranked |-> sorted_desc(scored, 1, <<>>),
        results |-> scored]

\* app.py pick_best
app_pick_best(results) ==
    LET scored == [i \in 1..Len(results) |->
                     LET qual == app_qual_of(results[i].answer)
                     IN [sim |-> results[i].sim,
                         matched_query |-> results[i].matched_query,
                         answer |-> results[i].answer,
                         qual |-> qual,
                         total |-> results[i].sim + qual]]
    IN [best |-> pick_loop(scored, 1, None, -99900),
        ranked |-> sorted_desc(scored, 1, <<>>),
        results |-> scored]

(***************************************************************************)
(* Command extraction                                                      *)
(***************************************************************************)
\* the number of "&" directly before index i of t
RECURSIVE amp_run(_, _)
amp_run(t, i) == IF i > 1 /\ t[i - 1] = "&" THEN 1 + amp_run(t, i - 1) ELSE 0

\* a match of ,|&&|\.\s+ starts at index i of t, in the left-to-right scan
\* (of a run of "&" the scan pairs the first with the second, and so on)
delim_at(t, i) ==
    \/ t[i] = ","
    \/ t[i] = "&" /\ i + 1 <= Len(t) /\ t[i + 1] = "&" /\ amp_run(t, i) % 2 = 0
    \/ t[i] = "." /\ i + 1 <= Len(t) /\ IsSpace(t[i + 1])

\* the index after the match that starts at i
delim_end(t, i) ==
    IF t[i] = "," THEN i + 1
    ELSE IF t[i] = "&" THEN i + 2
    ELSE skip_spaces(t, i + 1)

\* re.split(r",|&&|\.\s+", t)
re_split(t) ==
    LET D == {i \in 1..Len(t) : delim_at(t, i)}
        n == Cardinality(D)
        d == [k \in 1..n |-> CHOOSE x \in D : Cardinality({y \in D : y < x}) = k - 1]
    IN [k \in 1..(n + 1) |->
          SubSeq(t, IF k = 1 THEN 1 ELSE delim_end(t, d[k - 1]),
                    IF k = n + 1 THEN Len(t) ELSE d[k] - 1)]

cmd_keywords ==
    << Chars("sudo"), Chars("apt-get"), Chars("apt "), Chars("nmcli"),
       Chars("ifconfig"), Chars("iwconfig"), Chars("lspci"), Chars("lsusb"),
       Chars("dmesg"), Chars("systemctl"), Chars("rfkill"), Chars("netplan") >>

\* re.sub(r"^\s*run\s+", "", p, flags=re.IGNORECASE)
remove_run(p) ==
    LET k == skip_spaces(p, 1)
    IN IF /\ k + 3 <= Len(p)
          /\ lower(SubSeq(p, k, k + 2)) = Chars("run")
          /\ IsSpace(p[k + 3])
       THEN SubSeq(p, skip_spaces(p, k + 3), Len(p))
       ELSE p

add_sudo_apt_get_only(p) ==
    IF startswith(lower(p), Chars("apt-get")) THEN Chars("sudo ") \o p ELSE p

\* if p.lower().startswith(("apt-get", "apt ")): p = "sudo " + p
add_sudo(p) ==
    IF startswith(lower(p), Chars("apt-get")) \/ startswith(lower(p), Chars("apt "))
    THEN Chars("sudo ") \o p
    ELSE p

\* for p in parts: ...  commands.append(p)     (the loop, from index k)
RECURSIVE collect(_, _, _)
collect(parts, k, commands) ==
    IF k > Len(parts) THEN commands
    ELSE LET p == strip(parts[k])
         IN IF p = <<>> THEN collect(parts, k + 1, commands)
            ELSE IF any_in(lower(p), cmd_keywords)
                 THEN LET c == add_sudo(remove_run(p))
                      IN IF Len(c) >= 5
                         THEN collect(parts, k + 1, Append(commands, c))
                         ELSE collect(parts, k + 1, commands)
                 ELSE collect(parts, k + 1, commands)

\* the list `commands` when the de-duplication starts
collected_commands(text) ==
    LET t == strip(text)
        c == collect(re_split(t), 1, <<>>)
    IN IF Contains(lower(t), Chars("reboot"))
       THEN Append(c, Chars("sudo reboot"))
       ELSE c

keep_all(commands, k, unique) == commands

\* for c in commands: if c not in seen: unique.append(c); seen.add(c)
RECURSIVE dedupe(_, _, _)
dedupe(commands, k, unique) ==
    IF k > Len(commands) THEN unique
    ELSE IF commands[k] \in Range(unique)
         THEN dedupe(commands, k + 1, unique)
         ELSE dedupe(commands, k + 1, Append(unique, commands[k]))

\* unique[:8]
first8(unique) == SubSeq(unique, 1, IF Len(unique) < 8 THEN Len(unique) ELSE 8)

\* chat.py extract_commands
extract_commands(text) ==
    IF text = <<>> THEN <<>>
    ELSE first8(dedupe(collected_commands(text), 1, <<>>))

\* app.py extract_commands
app_extract_commands(text) ==
    IF text = <<>> THEN <<>>
    ELSE first8(dedupe(collected_commands(text), 1, <<>>))

(***************************************************************************)
(* Responses.  A response is the text printed or stored for one turn; the  *)
(* formatted answer is kept as its variable parts (the fixed header and    *)
(* the four diagnostic lines are the same in every formatted answer).      *)
(***************************************************************************)
OUT_OF_DOMAIN_MSG == [kind |-> "out_of_domain"]
LOW_CONFIDENCE_MSG == [kind |-> "low_confidence"]

\* extract_commands of the corpus answers, computed once
ChatCommands == [a \in Range(CorpusAnswers) |-> extract_commands(a)]
AppCommands == [a \in Range(CorpusAnswers) |-> app_extract_commands(a)]

\* commands = extract_commands(best_answer)
commands_of(ans) ==
    IF ans \in DOMAIN ChatCommands THEN ChatCommands[ans] ELSE extract_commands(ans)

\* cmds = extract_commands(best_answer)
app_commands_of(ans) ==
    IF ans \in DOMAIN AppCommands THEN AppCommands[ans] ELSE app_extract_commands(ans)

\* chat.py format_support_answer
format_support_answer(user_q, best_answer) ==
    [kind |-> "answer", step |-> strip(best_answer),
     commands |-> commands_of(best_answer)]

\* app.py format_support_answer
app_format_support_answer(best_answer) ==
    [kind |-> "answer", step |-> strip(best_answer),
     commands |-> app_commands_of(best_answer)]

(***************************************************************************)
(* Inputs                                                                  *)
(***************************************************************************)
MaxK == 3
MaxSlack == 1

\* similarities returned by the index, in hundredths
Sims == {10, 60, 90}

CorpusIds == 1..Len(CorpusAnswers)

\* the candidate search builds for corpus entry idx with score sim
Candidate(sim, idx) ==
    [sim |-> sim, matched_query |-> CorpusQueries[idx],
     answer |-> CorpusAnswers[idx]]

\* what the index can return for top_k = n: distinct ids, scores descending
ResultLists(n) ==
    {[i \in 1..n |-> Candidate(ss[i], ids[i])] :
        <<ss, ids>> \in
          {x \in [1..n -> Sims] \X [1..n -> CorpusIds] :
              /\ \A i, j \in 1..n : i < j => x[1][i] >= x[1][j]
              /\ \A i, j \in 1..n : i # j => x[2][i] # x[2][j]}}

AllResultLists == UNION {ResultLists(n) : n \in 0..MaxK}

\* answer texts for the quality scorer: a phrase padded to a given length
Phrases ==
    { Chars(""), Chars("a"), Chars("  LOL "), Chars("rejoin the lollipop "),
      Chars("lol sudo apt-get update and try to reboot, then check dmesg "),
      Chars("please join "), Chars("see #ubuntu "), Chars("c# "),
      Chars("pm me "), Chars("go to #x "), Chars("go to # "),
      Chars("sudo apt-get update "), Chars("check dmesg "),
      Chars("Try: sudo apt update; sudo apt upgrade; sudo reboot ") }

LengthCases == {1} \cup {b + d : b \in {14, 29, 350, 600}, d \in 0..MaxSlack}

Padded(p, L) ==
    IF L <= Len(p) THEN p ELSE p \o [i \in 1..(L - Len(p)) |-> "z"]

ScoredAnswers == {Padded(p, L) : p \in Phrases, L \in LengthCases}

SingleLists ==
    {<< [sim |-> s, matched_query |-> Chars("q"), answer |-> a] >> :
        s \in {10, 90}, a \in ScoredAnswers}

(***************************************************************************)
(* Specification of the reranker as a function: Init draws a candidate     *)
(* list, one action applies pick_best of either surface.                   *)
(***************************************************************************)
Idle ==
    /\ surface = "none" /\ pc = "idle" /\ messages = <<>> /\ stdout = <<>>
    /\ calls = 0 /\ turns = 0 /\ last = [op |-> "none"]

IdleUnchanged == UNCHANGED <<surface, pc, messages, stdout, calls, turns, last>>

InitRerank ==
    /\ Idle
    /\ arg \in AllResultLists \cup SingleLists
    /\ ret = [fn |-> "none"]

chat_pick ==
    /\ ret.fn = "none"
    /\ ret' = [fn |-> "chat"] @@ pick_best(arg)
    /\ UNCHANGED arg /\ IdleUnchanged

app_pick ==
    /\ ret.fn = "none"
    /\ ret' = [fn |-> "app"] @@ app_pick_best(arg)
    /\ UNCHANGED arg /\ IdleUnchanged

NextRerank == chat_pick \/ app_pick

SpecRerank == InitRerank /\ [][NextRerank]_vars

\* the hint list, noise patterns and instructional verbs of the surface
\* whose pick_best produced ret
HintsOf(fn) == IF fn = "chat" THEN GOOD_HINTS ELSE APP_GOOD_HINTS
NoiseOf(fn) == IF fn = "chat" THEN BAD_PATTERNS ELSE APP_BAD_PATTERNS
VerbsOf(fn) == IF fn = "chat" THEN STEP_WORDS ELSE APP_STEP_WORDS

Picked == ret.fn \in {"chat", "app"}

\* position of candidate x in the list pick_best was given
PosOf(x) == CHOOSE i \in 1..Len(ret.results) : ret.results[i] = x

\* C4: for every non-empty candidate list pick_best returns as best a
\* candidate whose total (sim + quality) is maximal over the list, and among
\* the candidates with that total the one earliest in input order.
C4_BestIsFirstMaximum ==
    (Picked /\ Len(arg) > 0) =>
        \E i \in 1..Len(arg) :
            /\ ret.best = ret.results[i]
            /\ ret.best.sim = arg[i].sim /\ ret.best.answer = arg[i].answer
            /\ \A j \in 1..Len(arg) :
                 /\ ret.results[j].total = arg[j].sim + ret.results[j].qual
                 /\ ret.results[j].total <= ret.results[i].total
                 /\ j < i => ret.results[j].total < ret.results[i].total

\* a list whose maximal total is shared by two candidates was reranked
C4_Witness ==
    /\ Picked /\ Len(arg) >= 2
    /\ \E i, j \in 1..Len(arg) :
         /\ i < j
         /\ ret.results[i].total = ret.results[j].total
         /\ ret.results[i].sim # ret.results[j].sim
         /\ ret.best = ret.results[i]

\* C5: ranked is a permutation of the input candidates, ordered by total
\* non-increasing, candidates of equal total in their input order; so
\* ranked[0] is best.
C5_RankedStableDescending ==
    Picked =>
        /\ Len(ret.ranked) = Len(arg)
        /\ \A i \in 1..Len(arg) : \E k \in 1..Len(arg) : ret.ranked[k] = ret.results[i]
        /\ \A k \in 1..Len(arg) : \E i \in 1..Len(arg) : ret.ranked[k] = ret.results[i]
        /\ \A k, l \in 1..Len(ret.ranked) :
             k < l =>
               /\ ret.ranked[k].total >= ret.ranked[l].total
               /\ ret.ranked[k].total = ret.ranked[l].total
                    => PosOf(ret.ranked[k]) < PosOf(ret.ranked[l])
        /\ Len(arg) > 0 => ret.ranked[1] = ret.best

\* a reranking that moved candidates and kept a tie in input order
C5_Witness ==
    /\ Picked /\ Len(arg) >= 3
    /\ ret.ranked # ret.results
    /\ \E k \in 1..(Len(ret.ranked) - 1) :
         ret.ranked[k].total = ret.ranked[k + 1].total

\* the answer text, raw or normalised, matches a noise pattern of surface fn
MatchesNoise(fn, ans) ==
    \E k \in 1..Len(NoiseOf(fn)) :
        \/ re_search(NoiseOf(fn)[k], ans)
        \/ re_search(NoiseOf(fn)[k], strip(lower(ans)))

\* C6: an answer matching a noise pattern scores exactly -2.0, whatever
\* hints, length or verbs it has, and its total is its similarity minus 2.0.
C6_NoiseVeto ==
    Picked =>
        \A i \in 1..Len(arg) :
            MatchesNoise(ret.fn, arg[i].answer) =>
                /\ ret.results[i].qual = -200
                /\ ret.results[i].total = arg[i].sim - 200

\* a vetoed answer that also holds hints and a verb and has a rewarded length
C6_Witness ==
    /\ Picked
    /\ \E i \in 1..Len(arg) :
         /\ MatchesNoise(ret.fn, arg[i].answer)
         /\ Contains(lower(arg[i].answer), Chars("sudo"))
         /\ Contains(lower(arg[i].answer), Chars("try"))
         /\ Len(arg[i].answer) >= 30 /\ Len(arg[i].answer) <= 350
         /\ ret.results[i].qual = -200

\* the score the claim gives an answer with no noise pattern
ClaimedQuality(fn, ans) ==
    LET a == strip(lower(ans))
        L == Len(a)
    IN 25 * Cardinality({h \in Range(HintsOf(fn)) : Contains(a, h)})
         + (CASE L >= 30 /\ L <= 350 -> 50
              [] L < 15 -> -50
              [] L > 600 -> -30
              [] OTHER -> 0)
         + (IF \E v \in Range(VerbsOf(fn)) : Contains(a, v) THEN 30 ELSE 0)

\* C7: an answer with no noise pattern scores 0.25 per distinct hint that
\* occurs, plus the length adjustment, plus 0.3 once for any instructional
\* verb; similarity 0.9 with answer "a" gives quality -0.5 and total 0.4.
C7_QualityFormula ==
    Picked =>
        \A i \in 1..Len(arg) :
            /\ ~MatchesNoise(ret.fn, arg[i].answer) =>
                 ret.results[i].qual = ClaimedQuality(ret.fn, arg[i].answer)
            /\ (arg[i].answer = Chars("a") /\ arg[i].sim = 90) =>
                 (ret.results[i].qual = -50 /\ ret.results[i].total = 40)

\* the example of the claim was scored
C7_Witness ==
    /\ Picked /\ Len(arg) = 1
    /\ arg[1].answer = Chars("a") /\ arg[1].sim = 90
    /\ ret.results[1].qual = -50 /\ ret.results[1].total = 40

(***************************************************************************)
(* Specification of the command extractor as a function: Init draws a      *)
(* text, one action applies extract_commands of either surface.            *)
(***************************************************************************)
MaxSegs == 10
MaxStep == 2

Segments ==
    << Chars("sudo apt-get update"), Chars("Run apt-get update"),
       Chars("apt install vim"), Chars("sudo reboot"),
       Chars("run nmcli dev status"), Chars("APT-GET upgrade"),
       Chars("RUN   apt  update"), Chars("dmesg | tail -50"), Chars("lspci"),
       Chars("sudo rfkill unblock all"),
       Chars("systemctl restart NetworkManager"), Chars("then reboot"),
       Chars("sudo"), Chars("check the logs"), Chars("run sudo"),
       Chars("runlevel sudo 3") >>

Delims ==
    << Chars(", "), Chars(" && "), Chars(". "), Chars(","), Chars(".  "),
       Chars(".") >>

\* n segments, every step-th from start, joined by the delimiters from d on
RECURSIVE JoinSegs(_, _, _, _, _)
JoinSegs(start, step, n, d, i) ==
    IF i > n THEN <<>>
    ELSE Segments[((start + (i - 1) * step) % Len(Segments)) + 1]
           \o (IF i < n THEN Delims[((d + i) % Len(Delims)) + 1] ELSE <<>>)
           \o JoinSegs(start, step, n, d, i + 1)

ExtractTexts ==
    {JoinSegs(start, step, n, d, 1) :
        start \in 0..(Len(Segments) - 1), step \in 0..MaxStep,
        n \in 0..MaxSegs, d \in 0..(Len(Delims) - 1)}
    \cup { Chars("Run apt-get update, then reboot."),
           Chars("sudo apt-get update"), Chars("   "),
           Chars("  Please REBOOT now.  "), Chars("sudo.") }

InitExtract ==
    /\ Idle
    /\ arg \in ExtractTexts
    /\ ret = [fn |-> "none"]

chat_extract ==
    /\ ret.fn = "none"
    /\ ret' = [fn |-> "chat",
               commands |-> IF arg = <<>> THEN <<>> ELSE collected_commands(arg),
               value |-> extract_commands(arg)]
    /\ UNCHANGED arg /\ IdleUnchanged

app_extract ==
    /\ ret.fn = "none"
    /\ ret' = [fn |-> "app",
               commands |-> IF arg = <<>> THEN <<>> ELSE collected_commands(arg),
               value |-> app_extract_commands(arg)]
    /\ UNCHANGED arg /\ IdleUnchanged

NextExtract == chat_extract \/ app_extract

SpecExtract == InitExtract /\ [][NextExtract]_vars

Extracted == ret.fn \in {"chat", "app"}

\* first position of c in the sequence s
FirstPos(s, c) == CHOOSE i \in 1..Len(s) : s[i] = c /\ \A j \in 1..(i - 1) : s[j] # c

\* C8: extract_commands returns at most 8 entries, no two equal, in the
\* order of their first occurrence in the collected command list.
C8_AtMost8DistinctInOrder ==
    Extracted =>
        /\ Len(ret.value) <= 8
        /\ \A k, l \in 1..Len(ret.value) : k # l => ret.value[k] # ret.value[l]
        /\ \A k \in 1..Len(ret.value) : ret.value[k] \in Range(ret.commands)
        /\ \A k, l \in 1..Len(ret.value) :
             k < l => FirstPos(ret.commands, ret.value[k])
                        < FirstPos(ret.commands, ret.value[l])

\* a collected list with repeats and more than 8 distinct commands was cut
C8_Witness ==
    /\ Extracted
    /\ Len(ret.value) = 8
    /\ Cardinality(Range(ret.commands)) > 8
    /\ Len(ret.commands) > Cardinality(Range(ret.commands))

\* the segment p begins with the token "run" (any case) and whitespace
HasRunToken(p) ==
    /\ Len(p) >= 4
    /\ lower(SubSeq(p, 1, 3)) = Chars("run")
    /\ IsSpace(p[4])

\* the command the claim derives from a keyword-bearing segment p
ClaimedCommand(p) ==
    LET r == IF HasRunToken(p)
             THEN LET k == CHOOSE k \in 4..Len(p) :
                              /\ \A j \in 4..k : IsSpace(p[j])
                              /\ (k = Len(p) \/ ~IsSpace(p[k + 1]))
                  IN SubSeq(p, k + 1, Len(p))
             ELSE p
        low == lower(r)
    IN IF \/ (Len(low) >= 7 /\ SubSeq(low, 1, 7) = Chars("apt-get"))
          \/ (Len(low) >= 4 /\ SubSeq(low, 1, 4) = Chars("apt "))
       THEN Chars("sudo ") \o r
       ELSE r

\* the commands the claim derives from the segments of text, in order
RECURSIVE ClaimedFrom(_, _)
ClaimedFrom(parts, k) ==
    IF k > Len(parts) THEN <<>>
    ELSE LET p == strip(parts[k])
             keep == /\ \E w \in Range(cmd_keywords) : Contains(lower(p), w)
                     /\ Len(ClaimedCommand(p)) >= 5
         IN (IF keep THEN <<ClaimedCommand(p)>> ELSE <<>>)
              \o ClaimedFrom(parts, k + 1)

\* C9: each collected command is its keyword-bearing segment without a
\* leading "run " and with "sudo " before an unprivileged apt-get / apt, kept
\* if at least 5 long; no returned command begins with "apt-get" or "apt ";
\* "sudo reboot" is appended after the segment commands when the text
\* contains "reboot"; and the two examples of the specification.
C9_CollectedCommands ==
    Extracted =>
        LET segs == ClaimedFrom(re_split(strip(arg)), 1)
        IN /\ ret.commands =
                 (IF Contains(lower(arg), Chars("reboot"))
                  THEN segs \o << Chars("sudo reboot") >>
                  ELSE segs)
           /\ \A k \in 1..Len(ret.value) :
                 /\ ~startswith(ret.value[k], Chars("apt-get"))
                 /\ ~startswith(ret.value[k], Chars("apt "))
           /\ arg = Chars("Run apt-get update, then reboot.") =>
                 ret.value = << Chars("sudo apt-get update"), Chars("sudo reboot") >>
           /\ arg = Chars("sudo apt-get update") =>
                 ret.value = << Chars("sudo apt-get update") >>

\* the first example of the claim was extracted
C9_Witness ==
    /\ Extracted
    /\ arg = Chars("Run apt-get update, then reboot.")
    /\ ret.value = << Chars("sudo apt-get update"), Chars("sudo reboot") >>

(***************************************************************************)
(* The two surfaces: the command loop of chat.py and the Send / Clear      *)
(* handlers of app.py.  A behaviour is one session of one surface.         *)
(*                                                                         *)
(*   pc        "running", "exited" (exit / quit typed), "crashed" (an      *)
(*             exception left main)                                        *)
(*   stdout    the responses the command loop printed                      *)
(*   messages  st.session_state.messages                                   *)
(*   calls     number of search calls made                                 *)
(*   last      what the last turn read and did                             *)
(***************************************************************************)
MaxTurns == 2
MaxHits == 2

Queries ==
    { Chars("wifi not working after update"),
      Chars("what's your favorite color"),
      Chars("snap will not start"),
      Chars("exit"), Chars(" Quit "), Chars("   "), <<>> }

SimsDesc == << 90, 60, 10 >>

\* n hits: corpus entries first, first+1, ... with scores descending from
\* the top-th similarity
SearchHits(first, top, n) ==
    [i \in 1..n |->
        Candidate(SimsDesc[IF top + i - 1 < Len(SimsDesc) THEN top + i - 1
                           ELSE Len(SimsDesc)],
                  ((first + i - 2) % Len(CorpusAnswers)) + 1)]

SearchFailed == << [raised |-> TRUE] >>

\* what a call of search can do: return a candidate list, or raise
SearchOutcomes ==
    {SearchHits(first, top, n) :
        first \in CorpusIds, top \in 1..Len(SimsDesc), n \in 0..MaxHits}
    \cup {SearchFailed}

NoTurn == [op |-> "none"]

Turn(op, q, kind, searched, failed, best, emitted) ==
    [op |-> op, query |-> q, kind |-> kind, searched |-> searched,
     search_failed |-> failed, best |-> best, emitted |-> emitted]

Init ==
    /\ surface \in {"chat", "app"}
    /\ pc = "running"
    /\ messages = <<>>
    /\ stdout = <<>>
    /\ calls = 0
    /\ turns = 0
    /\ last = NoTurn
    /\ arg = <<>>
    /\ ret = [fn |-> "none"]

\* chat.py main, after search returned or raised outcome: pick_best, the
\* threshold and the answer
chat_answer(raw, user_q, outcome) ==
    IF outcome = SearchFailed
    THEN \* the exception raised by search leaves main
         /\ pc' = "crashed"
         /\ last' = Turn("input", raw, "fault", TRUE, TRUE, None, <<>>)
         /\ UNCHANGED stdout
    ELSE LET best == pick_best(outcome).best
         IN IF best = None
            THEN \* best["total"] on None raises TypeError
                 /\ pc' = "crashed"
                 /\ last' = Turn("input", raw, "fault", TRUE, FALSE, None, <<>>)
                 /\ UNCHANGED stdout
            ELSE IF best.total < MIN_TOTAL_SCORE
            THEN /\ stdout' = Append(stdout, LOW_CONFIDENCE_MSG)
                 /\ last' = Turn("input", raw, "low_confidence", TRUE, FALSE,
                                 best, <<LOW_CONFIDENCE_MSG>>)
                 /\ UNCHANGED pc
            ELSE LET out == format_support_answer(user_q, best.answer)
                 IN /\ stdout' = Append(stdout, out)
                    /\ last' = Turn("input", raw, "answer", TRUE, FALSE, best,
                                    <<out>>)
                    /\ UNCHANGED pc

\* chat.py main: one iteration of the while loop, reading raw from input()
chat_turn(raw) ==
    /\ surface = "chat" /\ pc = "running" /\ turns < MaxTurns
    /\ turns' = turns + 1
    /\ UNCHANGED <<surface, messages, arg, ret>>
    /\ LET user_q == strip(raw)
       IN IF lower(user_q) \in {Chars("exit"), Chars("quit")}
          THEN /\ pc' = "exited"
               /\ last' = Turn("input", raw, "exit", FALSE, FALSE, None, <<>>)
               /\ UNCHANGED <<stdout, calls>>
          ELSE IF user_q = <<>>
          THEN /\ last' = Turn("input", raw, "blank", FALSE, FALSE, None, <<>>)
               /\ UNCHANGED <<pc, stdout, calls>>
          ELSE IF ~is_ubuntu_question(user_q)
          THEN /\ stdout' = Append(stdout, OUT_OF_DOMAIN_MSG)
               /\ last' = Turn("input", raw, "out_of_domain", FALSE, FALSE, None,
                               <<OUT_OF_DOMAIN_MSG>>)
               /\ UNCHANGED <<pc, calls>>
          ELSE /\ calls' = calls + 1
               /\ \E outcome \in SearchOutcomes : chat_answer(raw, user_q, outcome)

\* app.py Send handler, after search returned or raised outcome; stored is
\* the transcript with the user message appended
app_answer(raw, stored, outcome) ==
    IF outcome = SearchFailed
    THEN /\ messages' = stored
         /\ last' = Turn("send", raw, "fault", TRUE, TRUE, None, <<>>)
    ELSE LET best == app_pick_best(outcome).best
         IN IF best = None
            THEN \* best["answer"] on None raises TypeError
                 /\ messages' = stored
                 /\ last' = Turn("send", raw, "fault", TRUE, FALSE, None, <<>>)
            ELSE LET bot_msg == app_format_support_answer(best.answer)
                 IN /\ messages' = Append(stored, <<"bot", bot_msg>>)
                    /\ last' = Turn("send", raw, "answer", TRUE, FALSE, best,
                                    <<bot_msg>>)

\* app.py: the script run after Send is pressed with raw in the text input.
\* An exception ends that script run only; the session and its state stay.
app_send(raw) ==
    /\ surface = "app" /\ pc = "running" /\ turns < MaxTurns
    /\ turns' = turns + 1
    /\ UNCHANGED <<surface, pc, stdout, arg, ret>>
    /\ IF strip(raw) = <<>>
       THEN /\ last' = Turn("send", raw, "blank", FALSE, FALSE, None, <<>>)
            /\ UNCHANGED <<messages, calls>>
       ELSE LET stored == Append(messages, <<"user", strip(raw)>>)
            IN IF ~app_is_ubuntu_question(raw)
               THEN /\ messages' = Append(stored, <<"bot", OUT_OF_DOMAIN_MSG>>)
                    /\ last' = Turn("send", raw, "out_of_domain", FALSE, FALSE,
                                    None, <<OUT_OF_DOMAIN_MSG>>)
                    /\ UNCHANGED calls
               ELSE /\ calls' = calls + 1
                    /\ \E outcome \in SearchOutcomes :
                           app_answer(raw, stored, outcome)

\* app.py: the Clear Chat button
app_clear ==
    /\ surface = "app" /\ pc = "running" /\ turns < MaxTurns
    /\ turns' = turns + 1
    /\ messages' = <<>>
    /\ last' = Turn("clear", <<>>, "clear", FALSE, FALSE, None, <<>>)
    /\ UNCHANGED <<surface, pc, stdout, calls, arg, ret>>

Next ==
    \/ \E raw \in Queries : chat_turn(raw)
    \/ \E raw \in Queries : app_send(raw)
    \/ app_clear

Spec == Init /\ [][Next]_vars

\* the last step was a turn that read a query
QueryTurn == last.op \in {"input", "send"}

\* the query is empty or whitespace only
IsBlank(q) == \A i \in 1..Len(q) : IsSpace(q[i])

\* the command loop reads the query as one of its reserved tokens
IsExitToken(q) == surface = "chat" /\ lower(strip(q)) \in {Chars("exit"), Chars("quit")}

\* the intent classifier of the running surface accepts the query
InDomain(q) ==
    IF surface = "chat" THEN is_ubuntu_question(q) ELSE app_is_ubuntu_question(q)

\* the formatter's text of the running surface
Formatted(q, answer) ==
    IF surface = "chat" THEN format_support_answer(strip(q), answer)
    ELSE app_format_support_answer(answer)

\* the responses shown so far, oldest first
Shown ==
    IF surface = "chat" THEN stdout
    ELSE LET bots == {i \in 1..Len(messages) : messages[i][1] = "bot"}
         IN [k \in 1..Cardinality(bots) |->
               messages[CHOOSE i \in bots : Cardinality({j \in bots : j < i}) = k - 1][2]]

\* C1: on every surface, an in-domain query whose best candidate has total
\* below MIN_TOTAL_SCORE ends with the low-confidence message, and the best
\* candidate's answer is not shown.
C1_LowTotalIsRejected ==
    (/\ QueryTurn /\ last.searched
     /\ last.best # None /\ last.best.total < MIN_TOTAL_SCORE)
        => /\ last.emitted = << LOW_CONFIDENCE_MSG >>
           /\ Shown # <<>> /\ Shown[Len(Shown)] = LOW_CONFIDENCE_MSG

\* C2: every non-blank accepted query whose retrieval returned a candidate
\* list (an empty one included) gets exactly one response: the out-of-domain
\* message iff the classifier rejects it, else the low-confidence message or
\* the formatted best answer; and no fault.
C2_ExactlyOneResponse ==
    (/\ QueryTurn /\ ~IsBlank(last.query) /\ ~IsExitToken(last.query)
     /\ ~last.search_failed)
        => /\ pc = "running"
           /\ last.kind # "fault"
           /\ Len(last.emitted) = 1
           /\ Shown # <<>> /\ Shown[Len(Shown)] = last.emitted[1]
           /\ (last.emitted[1] = OUT_OF_DOMAIN_MSG) <=> ~InDomain(last.query)
           /\ \/ last.emitted[1] \in {OUT_OF_DOMAIN_MSG, LOW_CONFIDENCE_MSG}
              \/ /\ last.best # None
                 /\ last.emitted[1] = Formatted(last.query, last.best.answer)

\* C3: a search call that fails loses only its turn; the process keeps
\* running and takes the next query.
C3_SearchFailureKeepsRunning ==
    (QueryTurn /\ last.search_failed) => pc = "running"

\* C10: a turn whose query is blank or whitespace only calls no retrieval,
\* emits no response and leaves the transcript, the output and the loop
\* state as they were.
C10_BlankQueryIgnored ==
    [][(/\ turns' # turns
        /\ last'.op \in {"input", "send"}
        /\ IsBlank(last'.query))
          => /\ messages' = messages
             /\ stdout' = stdout
             /\ calls' = calls
             /\ pc' = pc
             /\ last'.emitted = <<>>
             /\ ~last'.searched]_vars

\* a whitespace-only query was read after a query that was answered
C10_Witness ==
    /\ QueryTurn
    /\ IsBlank(last.query) /\ Len(last.query) > 0
    /\ Shown # <<>>
    /\ calls > 0

\* C11: the session transcript changes only by (role, text) entries with
\* role user or bot being appended at its end, or by the clear action
\* emptying it; and every query the Send handler processes appends its user
\* entry followed by its bot reply.
C11_TranscriptAppendOnly ==
    [][/\ \/ messages' = messages
          \/ (last'.op = "clear" /\ messages' = <<>>)
          \/ /\ Len(messages') > Len(messages)
             /\ SubSeq(messages', 1, Len(messages)) = messages
             /\ \A i \in (Len(messages) + 1)..Len(messages') :
                    messages'[i][1] \in {"user", "bot"}
       /\ (/\ turns' # turns
           /\ last'.op = "send"
           /\ ~IsBlank(last'.query))
             => /\ Len(messages') = Len(messages) + 2
                /\ messages'[Len(messages) + 1] = <<"user", strip(last'.query)>>
                /\ messages'[Len(messages) + 2][1] = "bot"]_vars

\* --- both surfaces deciding on the same query and candidate list ----------

\* what a surface decides for one query: the domain verdict, the candidate
\* pick_best chose with its quality and total, and what the user is shown
Decision(in_domain, best, outcome) ==
    [in_domain |-> in_domain, best |-> best, outcome |-> outcome]

\* chat.py main: from the domain check to the printed response
chat_decision(user_q, results) ==
    IF ~is_ubuntu_question(strip(user_q))
    THEN Decision(FALSE, None, "out_of_domain")
    ELSE LET best == pick_best(results).best
         IN IF best = None
            THEN Decision(TRUE, None, "fault")
            ELSE IF best.total < MIN_TOTAL_SCORE
            THEN Decision(TRUE, best, "rejected")
            ELSE Decision(TRUE, best, "answer")

\* app.py Send handler: from the domain check to bot_msg
app_decision(user_q, results) ==
    IF ~app_is_ubuntu_question(user_q)
    THEN Decision(FALSE, None, "out_of_domain")
    ELSE LET best == app_pick_best(results).best
         IN IF best = None
            THEN Decision(TRUE, None, "fault")
            ELSE Decision(TRUE, best, "answer")

\* the queries that reach the domain check on both surfaces
DecideQueries ==
    {q \in Queries :
        /\ strip(q) # <<>>
        /\ lower(strip(q)) \notin {Chars("exit"), Chars("quit")}}

InitDecide ==
    /\ Idle
    /\ arg \in [query : DecideQueries, results : SearchOutcomes \ {SearchFailed}]
    /\ ret = [fn |-> "decide", chat |-> None, app |-> None]

chat_decide ==
    /\ ret.chat = None
    /\ ret' = [ret EXCEPT !.chat = chat_decision(arg.query, arg.results)]
    /\ UNCHANGED arg /\ IdleUnchanged

app_decide ==
    /\ ret.app = None
    /\ ret' = [ret EXCEPT !.app = app_decision(arg.query, arg.results)]
    /\ UNCHANGED arg /\ IdleUnchanged

NextDecide == chat_decide \/ app_decide

SpecDecide == InitDecide /\ [][NextDecide]_vars

\* both surfaces have decided on the query and candidate list in arg
BothDecided == ret.fn = "decide" /\ ret.chat # None /\ ret.app # None

\* C12: given the same query text and the same retrieved candidate list, the
\* command loop and the web surface reach the same in-domain/out-of-domain
\* verdict, the same best candidate with the same quality score, and the
\* same accept/reject outcome.
C12_SurfacesDecideAlike ==
    BothDecided =>
        /\ ret.chat.in_domain = ret.app.in_domain
        /\ ret.chat.best = ret.app.best
        /\ ret.chat.outcome = ret.app.outcome

====
